---- MODULE Spec2Model ----
(***************************************************************************)
(* wesgr: the pipeline of wesgr.c.  main() parses the command line, sets   *)
(* up the timeline model and the parse context, runs parse_file() (chunk   *)
(* reads feeding the resumable JSON tokener, every decoded object handed   *)
(* to parse_context_process_object, graph_data_end at end of stream) and   *)
(* renders with graph_data_to_svg.                                         *)
(*                                                                         *)
(* Bytes are abstracted to four classes: "{" opens an object, "}" closes   *)
(* it, "o" is a payload byte of an object, " " is whitespace.  A payload   *)
(* byte or "}" outside an object, and "{" inside one, are malformed.       *)
(***************************************************************************)
EXTENDS Integers, Sequences, FiniteSets, TLC

\* ---- bounds of the model ------------------------------------------------
MaxLen == 5       \* longest input file, in bytes
MaxChunk == 5     \* largest chunk size tried (the code reads 8192 at a time)
MaxArgs == 4      \* longest command line, in options/arguments

Bytes == {"{", "}", "o", " "}
ChunkSizes == 1..MaxChunk

RECURSIVE SeqsUpTo(_, _)
SeqsUpTo(S, n) ==
  IF n = 0 THEN {<<>>}
  ELSE LET shorter == SeqsUpTo(S, n - 1)
       IN shorter \cup {Append(s, x) : s \in {t \in shorter : Len(t) = n - 1}, x \in S}

Files == SeqsUpTo(Bytes, MaxLen)

Min(a, b) == IF a < b THEN a ELSE b

NULL == <<>>                 \* a null json_object pointer; an object is <<payload>>
ERROR == -1                  \* the value of the ERROR macro

\* ---- struct bytebuf -----------------------------------------------------
\* data is the allocation, alloc bytes long; "?" is a byte never written.
bytebuf_init == [data |-> <<>>, alloc |-> 0, len |-> 0, pos |-> 0]

bytebuf_release(bb) == bytebuf_init

\* bytebuf_ensure without the early return (lines 60-61 left out): realloc
\* is called whatever alloc is, and cuts the buffer down to sz.
bytebuf_ensure_always_reallocs(bb, sz, mem) ==
  IF ~mem THEN [r |-> ERROR, bb |-> bb]
  ELSE [r |-> 0,
        bb |-> [bb EXCEPT !.data = [i \in 1..sz |-> IF i <= bb.alloc
                                                    THEN bb.data[i] ELSE "?"],
                          !.alloc = sz]]

\* mem: whether realloc succeeds when it is called.
bytebuf_ensure(bb, sz, mem) ==
  IF bb.alloc >= sz THEN [r |-> 0, bb |-> bb]
  ELSE IF ~mem THEN [r |-> ERROR, bb |-> bb]
  ELSE [r |-> 0,
        bb |-> [bb EXCEPT !.data = bb.data \o [i \in 1..(sz - bb.alloc) |-> "?"],
                          !.alloc = sz]]

\* FILE: the stream position and its end-of-file and error indicators.
fopen_stream == [pos |-> 0, eof |-> FALSE, err |-> FALSE]

\* fread(buf, 1, sz, fp) on a stream over `file`: the bytes transferred and
\* the stream afterwards.  io = "ferror" is a read fault of the device: no
\* byte is transferred and the error indicator is set.  The end-of-file
\* indicator is set when fewer than sz bytes were left.
fread(file, fp, sz, io) ==
  IF io = "ferror" THEN [bytes |-> <<>>, fp |-> [fp EXCEPT !.err = TRUE]]
  ELSE LET n == Min(sz, Len(file) - fp.pos)
       IN [bytes |-> SubSeq(file, fp.pos + 1, fp.pos + n),
           fp |-> [fp EXCEPT !.pos = fp.pos + n,
                             !.eof = fp.eof \/ n < sz]]

\* bytebuf_read_from_file without the reset of pos (line 86 left out).
bytebuf_read_keeps_pos(bb, file, fp, sz, io) ==
  LET e == bytebuf_ensure(bb, sz, io # "nomem")
  IN IF e.r < 0 THEN [r |-> ERROR, bb |-> bb, fp |-> fp]
     ELSE LET f == fread(file, fp, sz, io)
              ret == Len(f.bytes)
              data == f.bytes \o SubSeq(e.bb.data, ret + 1, e.bb.alloc)
          IN IF f.fp.err THEN [r |-> ERROR, bb |-> [e.bb EXCEPT !.data = data], fp |-> f.fp]
             ELSE [r |-> 0, bb |-> [e.bb EXCEPT !.data = data, !.len = ret], fp |-> f.fp]

\* bytebuf_read_from_file taking a read of fewer than sz bytes for an error.
bytebuf_read_short_is_error(bb, file, fp, sz, io) ==
  LET e == bytebuf_ensure(bb, sz, io # "nomem")
  IN IF e.r < 0 THEN [r |-> ERROR, bb |-> bb, fp |-> fp]
     ELSE LET f == fread(file, fp, sz, io)
              ret == Len(f.bytes)
              data == f.bytes \o SubSeq(e.bb.data, ret + 1, e.bb.alloc)
          IN IF f.fp.err \/ ret < sz
             THEN [r |-> ERROR, bb |-> [e.bb EXCEPT !.data = data], fp |-> f.fp]
             ELSE [r |-> 0,
                   bb |-> [e.bb EXCEPT !.data = data, !.len = ret, !.pos = 0],
                   fp |-> f.fp]

bytebuf_read_from_file(bb, file, fp, sz, io) ==
  LET e == bytebuf_ensure(bb, sz, io # "nomem")
  IN IF e.r < 0 THEN [r |-> ERROR, bb |-> bb, fp |-> fp]
     ELSE LET f == fread(file, fp, sz, io)
              ret == Len(f.bytes)
              data == f.bytes \o SubSeq(e.bb.data, ret + 1, e.bb.alloc)
          IN IF f.fp.err THEN [r |-> ERROR, bb |-> [e.bb EXCEPT !.data = data], fp |-> f.fp]
             ELSE [r |-> 0,
                   bb |-> [e.bb EXCEPT !.data = data, !.len = ret, !.pos = 0],
                   fp |-> f.fp]

\* ---- the JSON tokener (json-c) -------------------------------------------
\* state and pb (the partial value) persist across calls; err and
\* char_offset are those of the last call.
json_tokener_new == [state |-> "start", pb |-> <<>>, err |-> "success", char_offset |-> 0]

RECURSIVE tokener_scan(_, _, _, _)
tokener_scan(state, pb, str, i) ==
  IF i > Len(str)
  THEN IF state = "finish"
       THEN [jobj |-> <<pb>>,
             jtok |-> [state |-> "start", pb |-> <<>>, err |-> "success", char_offset |-> i - 1]]
       ELSE [jobj |-> NULL,
             jtok |-> [state |-> state, pb |-> pb, err |-> "continue", char_offset |-> i - 1]]
  ELSE LET c == str[i]
           bad == [jobj |-> NULL,
                   jtok |-> [state |-> state, pb |-> pb, err |-> "parse_unexpected",
                             char_offset |-> i - 1]]
       IN CASE state = "start" ->
                 IF c = " " THEN tokener_scan(state, pb, str, i + 1)
                 ELSE IF c = "{" THEN tokener_scan("object", <<>>, str, i + 1)
                 ELSE bad
            [] state = "object" ->
                 IF c = " " THEN tokener_scan(state, pb, str, i + 1)
                 ELSE IF c = "o" THEN tokener_scan(state, Append(pb, c), str, i + 1)
                 ELSE IF c = "}" THEN tokener_scan("finish", pb, str, i + 1)
                 ELSE bad
            [] OTHER ->   \* "finish": the whitespace after the value is eaten
                 IF c = " " THEN tokener_scan(state, pb, str, i + 1)
                 ELSE [jobj |-> <<pb>>,
                       jtok |-> [state |-> "start", pb |-> <<>>, err |-> "success",
                                 char_offset |-> i - 1]]

json_tokener_parse_ex(jtok, str) == tokener_scan(jtok.state, jtok.pb, str, 1)

json_tokener_get_error(jtok) == jtok.err

\* ---- the event interpreter (parse.c, not part of this source file) -------
\* One lane.  An object with payload "o" opens an interval, an object with
\* no payload closes it, any other shape is not recognised.  ctx.open: an
\* interval is open; ctx.closed: the intervals completed so far.
parse_context_init == [open |-> FALSE, closed |-> 0]

parse_context_process_object(ctx, jobj) ==
  LET payload == jobj[1]
  IN CASE payload = <<"o">> ->
            IF ctx.open THEN [r |-> ERROR, ctx |-> ctx]
            ELSE [r |-> 0, ctx |-> [ctx EXCEPT !.open = TRUE]]
       [] payload = <<>> ->
            IF ~ctx.open THEN [r |-> ERROR, ctx |-> ctx]
            ELSE [r |-> 0, ctx |-> [ctx EXCEPT !.open = FALSE, !.closed = @ + 1]]
       [] OTHER -> [r |-> ERROR, ctx |-> ctx]

\* ---- parse_file: the decode loop -----------------------------------------
\* The frame of parse_file.  objs: the payloads handed to
\* parse_context_process_object, in order; r: what its last call returned;
\* feeds and reads count the calls of json_tokener_parse_ex and
\* bytebuf_read_from_file; consumed: the bytes the tokener has taken in,
\* call after call (char_offset bytes of each slice); st is "run" while the
\* loop runs and names the break that left it afterwards.
parse_file_enter ==
  [bb |-> bytebuf_init, jtok |-> json_tokener_new, fp |-> fopen_stream,
   ctx |-> parse_context_init, objs |-> <<>>, ret |-> -1, r |-> 0, st |-> "run",
   feeds |-> 0, reads |-> 0, consumed |-> <<>>]

Slice(bb) == SubSeq(bb.data, bb.pos + 1, bb.len)

IoOutcomes == {"ok", "nomem", "ferror"}

\* The test of feof left out: at end-of-file the loop reads again.
OnContinueIgnoresEof(s, file, sz, io) ==
  LET rd == bytebuf_read_from_file(s.bb, file, s.fp, sz, io)
  IN [s EXCEPT !.bb = rd.bb, !.fp = rd.fp, !.reads = @ + 1,
               !.st = IF rd.r < 0 THEN "read_error" ELSE "run"]

\* End-of-file leaving the loop with ret still -1 (line 119 left out).
OnContinueEofKeepsRet(s, file, sz, io) ==
  IF s.fp.eof
  THEN [s EXCEPT !.st = "eof"]
  ELSE LET rd == bytebuf_read_from_file(s.bb, file, s.fp, sz, io)
       IN [s EXCEPT !.bb = rd.bb, !.fp = rd.fp, !.reads = @ + 1,
                    !.st = IF rd.r < 0 THEN "read_error" ELSE "run"]

\* lines 117-127: the tokener wants more input.
OnContinue(s, file, sz, io) ==
  IF s.fp.eof
  THEN [s EXCEPT !.ret = 0, !.st = "eof"]
  ELSE LET rd == bytebuf_read_from_file(s.bb, file, s.fp, sz, io)
       IN [s EXCEPT !.bb = rd.bb, !.fp = rd.fp, !.reads = @ + 1,
                    !.st = IF rd.r < 0 THEN "read_error" ELSE "run"]

\* Malformed input skipped instead of aborting: the offset steps over the
\* bad byte and the loop goes on.
OnParseFailureSkips(s) ==
  [s EXCEPT !.bb.pos = @ + s.jtok.char_offset + 1]

\* lines 129-132: the tokener reports malformed input.
OnParseFailure(s) == [s EXCEPT !.st = "parse_failure"]

\* The object dispatched with the test of r left out: the loop goes on
\* after an interpretation error.
OnObjectErrorIgnored(s, jobj) ==
  LET p == parse_context_process_object(s.ctx, jobj)
  IN [s EXCEPT !.bb.pos = @ + s.jtok.char_offset,
               !.ctx = p.ctx,
               !.r = p.r,
               !.objs = Append(@, jobj[1])]

\* The object dispatched and the rest of the chunk dropped: the offset is
\* moved to the end of the chunk.
OnObjectDropsRemainder(s, jobj) ==
  LET p == parse_context_process_object(s.ctx, jobj)
  IN [s EXCEPT !.bb.pos = s.bb.len,
               !.ctx = p.ctx,
               !.r = p.r,
               !.objs = Append(@, jobj[1]),
               !.st = IF p.r < 0 THEN "interpretation_error" ELSE "run"]

\* The object dispatched with the offset left where it was (line 134 left
\* out).
OnObjectKeepsOffset(s, jobj) ==
  LET p == parse_context_process_object(s.ctx, jobj)
  IN [s EXCEPT !.ctx = p.ctx,
               !.r = p.r,
               !.objs = Append(@, jobj[1]),
               !.st = IF p.r < 0 THEN "interpretation_error" ELSE "run"]

\* The object dispatched with the offset advanced one byte too far.
OnObjectOffsetOffByOne(s, jobj) ==
  LET p == parse_context_process_object(s.ctx, jobj)
  IN [s EXCEPT !.bb.pos = @ + s.jtok.char_offset + 1,
               !.ctx = p.ctx,
               !.r = p.r,
               !.objs = Append(@, jobj[1]),
               !.st = IF p.r < 0 THEN "interpretation_error" ELSE "run"]

\* lines 134-142: the tokener returned an object.
OnObject(s, jobj) ==
  LET p == parse_context_process_object(s.ctx, jobj)
  IN [s EXCEPT !.bb.pos = @ + s.jtok.char_offset,
               !.ctx = p.ctx,
               !.r = p.r,
               !.objs = Append(@, jobj[1]),
               !.st = IF p.r < 0 THEN "interpretation_error" ELSE "run"]

\* One pass through the body of while (1), on the file `file` with chunk
\* size sz; io is what the environment does to a chunk read in this pass.
Iteration(s, file, sz, io) ==
  LET t == json_tokener_parse_ex(s.jtok, Slice(s.bb))
      jobj == t.jobj
      jerr == json_tokener_get_error(t.jtok)
      fed == [s EXCEPT !.jtok = t.jtok, !.feeds = @ + 1,
                       !.consumed = @ \o SubSeq(Slice(s.bb), 1, t.jtok.char_offset)]
  IN IF jobj = NULL /\ jerr = "continue" THEN OnContinue(fed, file, sz, io)
     ELSE IF jobj = NULL THEN OnParseFailure(fed)
     ELSE OnObject(fed, jobj)

\* The loop run to its end on `file` with no fault of the environment.
RECURSIVE RunLoop(_, _, _)
RunLoop(s, f, sz) ==
  IF s.st # "run" THEN s ELSE RunLoop(Iteration(s, f, sz, "ok"), f, sz)

\* The loop on the whole file given as a single chunk.
WholeFile(f) == RunLoop(parse_file_enter, f, IF Len(f) = 0 THEN 1 ELSE Len(f))

\* ---- the command line -----------------------------------------------------
\* argv after getopt_long's scan: one item per option with its argument,
\* "?" for an unknown flag or a missing argument, "x" for a non-option
\* argument (getopt_long moves those behind the options).
InName == <<"i", "n">>
OutName == <<"s", "v", "g">>
MsArgs == {<<"1", "5">>, <<"x">>}

Opt(c, arg) == [c |-> c, arg |-> arg]

ArgItems ==
  {Opt("i", InName), Opt("o", OutName), Opt("h", <<>>), Opt("?", <<>>), Opt("x", <<>>)}
    \cup {Opt("a", v) : v \in MsArgs} \cup {Opt("b", v) : v \in MsArgs}

Argvs == SeqsUpTo(ArgItems, MaxArgs)

DigitChars == <<"0", "1", "2", "3", "4", "5", "6", "7", "8", "9">>
IsDigit(c) == \E i \in 1..10 : DigitChars[i] = c
DigitVal(c) == (CHOOSE i \in 1..10 : DigitChars[i] = c) - 1

RECURSIVE atoi_digits(_, _, _)
atoi_digits(str, i, acc) ==
  IF i > Len(str) \/ ~IsDigit(str[i]) THEN acc
  ELSE atoi_digits(str, i + 1, acc * 10 + DigitVal(str[i]))

atoi(str) ==
  IF Len(str) > 0 /\ str[1] = "-" THEN 0 - atoi_digits(str, 2, 0)
  ELSE atoi_digits(str, 1, 0)

prog_args == [from_ms |-> -1, to_ms |-> -1, infile |-> NULL, svgfile |-> NULL]

RECURSIVE parse_opts_scan(_, _, _)
parse_opts_scan(a, argv, i) ==
  IF i > Len(argv)
  THEN IF \E k \in 1..Len(argv) : argv[k].c = "x"
       THEN [r |-> -1, args |-> a]
       ELSE [r |-> 0, args |-> a]
  ELSE LET c == argv[i].c
           optarg == argv[i].arg
       IN CASE c = "?" -> [r |-> -1, args |-> a]
            [] c = "h" -> [r |-> -1, args |-> a]
            [] c = "i" -> parse_opts_scan([a EXCEPT !.infile = optarg], argv, i + 1)
            [] c = "a" -> parse_opts_scan([a EXCEPT !.from_ms = atoi(optarg)], argv, i + 1)
            [] c = "b" -> parse_opts_scan([a EXCEPT !.to_ms = atoi(optarg)], argv, i + 1)
            [] c = "o" -> parse_opts_scan([a EXCEPT !.svgfile = optarg], argv, i + 1)
            [] OTHER -> parse_opts_scan(a, argv, i + 1)

parse_opts(a, argv) == parse_opts_scan(a, argv, 1)

\* The argument of the last option c of argv as <<text>>, <<>> if there is
\* none.
LastArg(argv, c) ==
  LET at == {k \in 1..Len(argv) : argv[k].c = c}
  IN IF at = {} THEN <<>>
     ELSE <<argv[CHOOSE k \in at : \A j \in at : j <= k].arg>>

\* What the command line holds, read off argv itself.
CmdLine(argv) ==
  [unknown |-> \E k \in 1..Len(argv) : argv[k].c = "?",
   extra   |-> \E k \in 1..Len(argv) : argv[k].c = "x",
   help    |-> \E k \in 1..Len(argv) : argv[k].c = "h",
   input   |-> \E k \in 1..Len(argv) : argv[k].c = "i",
   output  |-> \E k \in 1..Len(argv) : argv[k].c = "o",
   from    |-> LastArg(argv, "a"),
   to      |-> LastArg(argv, "b")]

\* ---- the program ----------------------------------------------------------
VARIABLES
  pc,       \* where main (or parse_file, called from it) stands
  chunk,    \* the chunk size of the build (8192 in the source)
  cmd,      \* what the command line held (CmdLine of argv)
  args,     \* struct prog_args
  file,     \* the bytes of the input file, once it is open
  pf,       \* the frame of parse_file
  log,      \* the calls made so far, in order, each with its return value
  svg,      \* what graph_data_to_svg was called with: <<>> or <<window>>
  status    \* the exit status, once pc = "exit"

vars == <<pc, chunk, cmd, args, file, pf, log, svg, status>>

Call(f, r) == [f |-> f, r |-> r]
Calls(f) == {k \in 1..Len(log) : log[k].f = f}
Called(f) == Cardinality(Calls(f))
Succeeded(f) == \E k \in Calls(f) : log[k].r >= 0
Failed(f) == \E k \in Calls(f) : log[k].r < 0

Init ==
  /\ pc = "main"
  /\ chunk \in ChunkSizes
  /\ cmd = CmdLine(<<>>)
  /\ args = prog_args
  /\ file = <<>>
  /\ pf = parse_file_enter
  /\ log = <<>>
  /\ svg = <<>>
  /\ status = -1

Exit(code) == pc' = "exit" /\ status' = code

\* main, lines 242-243
MainParseOpts ==
  /\ pc = "main"
  /\ \E argv \in Argvs :
       LET p == parse_opts(prog_args, argv)
       IN /\ cmd' = CmdLine(argv)
          /\ args' = p.args
          /\ log' = Append(log, Call("parse_opts", p.r))
          /\ IF p.r < 0 THEN Exit(1)
             ELSE pc' = "check_args" /\ UNCHANGED status
  /\ UNCHANGED <<chunk, file, pf, svg>>

\* The check of the output file left out.
CheckArgsInputOnly ==
  /\ pc = "check_args"
  /\ IF args.infile = NULL THEN Exit(1)
     ELSE pc' = "graph_data_init" /\ UNCHANGED status
  /\ UNCHANGED <<chunk, cmd, args, file, pf, log, svg>>

\* main, lines 245-253
MainCheckArgs ==
  /\ pc = "check_args"
  /\ IF args.infile = NULL THEN Exit(1)
     ELSE IF args.svgfile = NULL THEN Exit(1)
     ELSE pc' = "graph_data_init" /\ UNCHANGED status
  /\ UNCHANGED <<chunk, cmd, args, file, pf, log, svg>>

\* main, lines 255-256
MainGraphDataInit ==
  /\ pc = "graph_data_init"
  /\ \E r \in {0, ERROR} :
       /\ log' = Append(log, Call("graph_data_init", r))
       /\ IF r < 0 THEN Exit(1)
          ELSE pc' = "parse_context_init" /\ UNCHANGED status
  /\ UNCHANGED <<chunk, cmd, args, file, pf, svg>>

\* main, lines 258-259
MainParseContextInit ==
  /\ pc = "parse_context_init"
  /\ \E r \in {0, ERROR} :
       /\ log' = Append(log, Call("parse_context_init", r))
       /\ IF r < 0 THEN Exit(1)
          ELSE pc' = "parse_file" /\ UNCHANGED status
  /\ UNCHANGED <<chunk, cmd, args, file, pf, svg>>

\* parse_file, lines 100-103
ParseFileTokenerNew ==
  /\ pc = "parse_file"
  /\ pf' = parse_file_enter
  /\ \E made \in BOOLEAN :
       IF made
       THEN /\ log' = Append(log, Call("json_tokener_new", 0))
            /\ pc' = "fopen"
       ELSE /\ log' = log \o <<Call("json_tokener_new", ERROR), Call("parse_file", ERROR)>>
            /\ pc' = "parse_file_returned"
  /\ UNCHANGED <<chunk, cmd, args, file, svg, status>>

\* A failed fopen returning at once instead of going to out_release.
FopenFailureReturnsAtOnce ==
  /\ pc = "fopen"
  /\ \/ /\ log' = log \o <<Call("fopen", ERROR), Call("parse_file", ERROR)>>
        /\ pc' = "parse_file_returned"
        /\ UNCHANGED file
     \/ /\ file' \in Files
        /\ log' = Append(log, Call("fopen", 0))
        /\ pc' = "loop"
  /\ UNCHANGED <<chunk, cmd, args, pf, svg, status>>

\* A failed fopen falling through to fclose instead of out_release.
FopenFailureFallsToFclose ==
  /\ pc = "fopen"
  /\ \/ /\ log' = Append(log, Call("fopen", ERROR))
        /\ pc' = "fclose"
        /\ UNCHANGED file
     \/ /\ file' \in Files
        /\ log' = Append(log, Call("fopen", 0))
        /\ pc' = "loop"
  /\ UNCHANGED <<chunk, cmd, args, pf, svg, status>>

\* parse_file, lines 105-107
ParseFileFopen ==
  /\ pc = "fopen"
  /\ \/ /\ log' = Append(log, Call("fopen", ERROR))
        /\ pc' = "out_release"
        /\ UNCHANGED file
     \/ /\ file' \in Files
        /\ log' = Append(log, Call("fopen", 0))
        /\ pc' = "loop"
  /\ UNCHANGED <<chunk, cmd, args, pf, svg, status>>

\* parse_file, lines 109-143
ParseFileLoop ==
  /\ pc = "loop"
  /\ \E io \in IoOutcomes : pf' = Iteration(pf, file, chunk, io)
  /\ pc' = IF pf'.st = "run" THEN "loop" ELSE "fclose"
  /\ UNCHANGED <<chunk, cmd, args, file, log, svg, status>>

\* parse_file, line 145
ParseFileFclose ==
  /\ pc = "fclose"
  /\ log' = Append(log, Call("fclose", 0))
  /\ pc' = "finalize"
  /\ UNCHANGED <<chunk, cmd, args, file, pf, svg, status>>

\* graph_data_end called with its result dropped (ret left at 0).
GraphDataEndResultDropped ==
  /\ pc = "finalize"
  /\ IF pf.ret # -1
     THEN \E r \in {0, ERROR} : log' = Append(log, Call("graph_data_end", r))
     ELSE UNCHANGED log
  /\ pc' = "out_release"
  /\ UNCHANGED <<chunk, cmd, args, file, pf, svg, status>>

\* graph_data_end called without the test of ret.
GraphDataEndUnconditional ==
  /\ pc = "finalize"
  /\ \E r \in {0, ERROR} :
       /\ pf' = [pf EXCEPT !.ret = r]
       /\ log' = Append(log, Call("graph_data_end", r))
  /\ pc' = "out_release"
  /\ UNCHANGED <<chunk, cmd, args, file, svg, status>>

\* parse_file, lines 147-148
ParseFileGraphDataEnd ==
  /\ pc = "finalize"
  /\ IF pf.ret # -1
     THEN \E r \in {0, ERROR} :
            /\ pf' = [pf EXCEPT !.ret = r]
            /\ log' = Append(log, Call("graph_data_end", r))
     ELSE UNCHANGED <<pf, log>>
  /\ pc' = "out_release"
  /\ UNCHANGED <<chunk, cmd, args, file, svg, status>>

\* parse_file, lines 150-157
ParseFileOutRelease ==
  /\ pc = "out_release"
  /\ pf' = [pf EXCEPT !.bb = bytebuf_release(pf.bb)]
  /\ log' = log \o <<Call("bytebuf_release", 0), Call("json_tokener_free", 0),
                     Call("parse_file", IF pf.ret = -1 THEN ERROR ELSE pf.ret)>>
  /\ pc' = "parse_file_returned"
  /\ UNCHANGED <<chunk, cmd, args, file, svg, status>>

\* main going on to the renderer whatever parse_file returned.
ParseFileResultIgnored ==
  /\ pc = "parse_file_returned"
  /\ pc' = "graph_data_to_svg"
  /\ UNCHANGED <<chunk, cmd, args, file, pf, log, svg, status>>

\* main, lines 261-262
MainParseFileReturned ==
  /\ pc = "parse_file_returned"
  /\ IF log[Len(log)].r < 0 THEN Exit(1)
     ELSE pc' = "graph_data_to_svg" /\ UNCHANGED status
  /\ UNCHANGED <<chunk, cmd, args, file, pf, log, svg>>

\* graph_data_to_svg called with the two bounds in the wrong order.
SvgCalledWithBoundsSwapped ==
  /\ pc = "graph_data_to_svg"
  /\ svg' = Append(svg, [from_ms |-> args.to_ms, to_ms |-> args.from_ms,
                         svgfile |-> args.svgfile])
  /\ \E r \in {0, ERROR} :
       /\ log' = Append(log, Call("graph_data_to_svg", r))
       /\ IF r < 0 THEN Exit(1)
          ELSE pc' = "release" /\ UNCHANGED status
  /\ UNCHANGED <<chunk, cmd, args, file, pf>>

\* main, lines 264-266
MainGraphDataToSvg ==
  /\ pc = "graph_data_to_svg"
  /\ svg' = Append(svg, [from_ms |-> args.from_ms, to_ms |-> args.to_ms,
                         svgfile |-> args.svgfile])
  /\ \E r \in {0, ERROR} :
       /\ log' = Append(log, Call("graph_data_to_svg", r))
       /\ IF r < 0 THEN Exit(1)
          ELSE pc' = "release" /\ UNCHANGED status
  /\ UNCHANGED <<chunk, cmd, args, file, pf>>

\* main, lines 268-271
MainRelease ==
  /\ pc = "release"
  /\ log' = log \o <<Call("parse_context_release", 0), Call("graph_data_release", 0)>>
  /\ Exit(0)
  /\ UNCHANGED <<chunk, cmd, args, file, pf, svg>>

Next ==
  \/ MainParseOpts
  \/ MainCheckArgs
  \/ MainGraphDataInit
  \/ MainParseContextInit
  \/ ParseFileTokenerNew
  \/ ParseFileFopen
  \/ ParseFileLoop
  \/ ParseFileFclose
  \/ ParseFileGraphDataEnd
  \/ ParseFileOutRelease
  \/ MainParseFileReturned
  \/ MainGraphDataToSvg
  \/ MainRelease

Spec == Init /\ [][Next]_vars

\* parse_file on its own: main has parsed "-i in -o svg", set up the model
\* and the context, and calls parse_file, whose steps run one after the
\* other without waiting for anything but the file.
ValidArgv == <<Opt("i", InName), Opt("o", OutName)>>

InitParseFile ==
  /\ pc = "parse_file"
  /\ chunk \in ChunkSizes
  /\ cmd = CmdLine(ValidArgv)
  /\ args = parse_opts(prog_args, ValidArgv).args
  /\ file = <<>>
  /\ pf = parse_file_enter
  /\ log = <<Call("parse_opts", 0), Call("graph_data_init", 0),
             Call("parse_context_init", 0)>>
  /\ svg = <<>>
  /\ status = -1

NextParseFile ==
  \/ ParseFileTokenerNew
  \/ ParseFileFopen
  \/ ParseFileLoop
  \/ ParseFileFclose
  \/ ParseFileGraphDataEnd
  \/ ParseFileOutRelease

ParseFileSpec == InitParseFile /\ [][NextParseFile]_vars /\ WF_vars(NextParseFile)

\* The bytebuf functions on their own, called in any order on one buffer
\* and one stream: chunk holds the size asked for, pf.r the result, pc the
\* function that ran last.  The functions never look at the bytes they
\* move, so one file of each length stands for the stream, its bytes telling
\* neighbouring positions apart.
StreamFiles ==
  {[i \in 1..n |-> <<"{", "o", "}", " ">>[((i - 1) % 4) + 1]] : n \in 0..MaxLen}

InitBytebuf ==
  /\ pc = "bytebuf_init"
  /\ chunk \in ChunkSizes
  /\ cmd = CmdLine(<<>>)
  /\ args = prog_args
  /\ file \in StreamFiles
  /\ pf = parse_file_enter
  /\ log = <<>>
  /\ svg = <<>>
  /\ status = -1

BytebufEnsure ==
  /\ \E sz \in 0..MaxChunk, mem \in BOOLEAN :
       LET e == bytebuf_ensure(pf.bb, sz, mem)
       IN /\ pf' = [pf EXCEPT !.bb = e.bb, !.r = e.r]
          /\ chunk' = sz
  /\ pc' = "bytebuf_ensure"
  /\ UNCHANGED <<cmd, args, file, log, svg, status>>

BytebufReadFromFile ==
  /\ \E sz \in ChunkSizes, io \in IoOutcomes :
       LET rd == bytebuf_read_from_file(pf.bb, file, pf.fp, sz, io)
       IN /\ pf' = [pf EXCEPT !.bb = rd.bb, !.fp = rd.fp, !.r = rd.r]
          /\ chunk' = sz
  /\ pc' = "bytebuf_read_from_file"
  /\ UNCHANGED <<cmd, args, file, log, svg, status>>

BytebufRelease ==
  /\ pc # "bytebuf_release"
  /\ pf' = [pf EXCEPT !.bb = bytebuf_release(pf.bb), !.r = 0]
  /\ pc' = "bytebuf_release"
  /\ UNCHANGED <<chunk, cmd, args, file, log, svg, status>>

NextBytebuf ==
  \/ BytebufEnsure
  \/ BytebufReadFromFile
  \/ BytebufRelease

BytebufSpec == InitBytebuf /\ [][NextBytebuf]_vars

\* ---- the claims -----------------------------------------------------------
LoopFailures == {"read_error", "parse_failure", "interpretation_error"}
ParseFileReturned == Called("parse_file") = 1

\* C1: end-of-file reached while the tokener is inside a value makes
\* parse_file fail (no success, no graph_data_end, no rendering); the loop
\* ends successfully only at end-of-file with the tokener wanting more input
\* and no value pending.
C1_TruncatedInputIsParseError ==
  /\ pf.st = "eof" =>
       pf.fp.eof /\ pf.jtok.err = "continue" /\ pf.jtok.state = "start"
  /\ (pf.st # "run" /\ pf.fp.eof /\ pf.jtok.err = "continue" /\ pf.jtok.state = "object") =>
       /\ ~Succeeded("parse_file")
       /\ Called("graph_data_end") = 0
       /\ svg = <<>>

\* C2: whatever the chunk size, the loop hands the same objects to
\* parse_context_process_object and ends the same way as on the whole file
\* read as one chunk (no read fault assumed).
C2_ChunkBoundaryIndependence ==
  (pc = "fclose" /\ pf.st # "read_error") =>
     LET w == WholeFile(file)
     IN /\ pf.objs = w.objs
        /\ pf.st = w.st
        /\ pf.ret = w.ret
        /\ pf.ctx = w.ctx

\* Two objects decoded one byte per chunk, each spanning several chunks.
C2_Witness ==
  /\ pc = "fclose"
  /\ chunk = 1
  /\ pf.st = "eof"
  /\ pf.objs = <<<<"o">>, <<>>>>
  /\ pf.reads > Len(file)

\* C3: graph_data_to_svg is called at most once, and only after parse_file
\* returned success (loop ended at end-of-file, graph_data_end succeeded);
\* after an open, read, parse, interpretation or finalize failure it is
\* never called.
C3_RenderOnlyAfterSuccess ==
  /\ Called("graph_data_to_svg") <= 1
  /\ Len(svg) = Called("graph_data_to_svg")
  /\ Called("graph_data_to_svg") > 0 =>
       /\ pf.st = "eof"
       /\ Succeeded("graph_data_end")
       /\ \E i \in Calls("parse_file") :
            log[i].r >= 0 /\ \A j \in Calls("graph_data_to_svg") : i < j
  /\ ( \/ Failed("json_tokener_new") \/ Failed("fopen")
       \/ pf.st \in LoopFailures
       \/ Failed("graph_data_end") \/ Failed("parse_file") ) =>
       Called("graph_data_to_svg") = 0

C3_Witness ==
  /\ Called("graph_data_to_svg") = 1
  /\ Succeeded("parse_file")
  /\ Len(pf.objs) = 2

\* C4: graph_data_end is called exactly once when the loop ended
\* successfully, after the last object was dispatched, and never when the
\* loop was left by an open failure, a read failure, malformed JSON or an
\* interpretation error.
C4_FinalizeExactlyOnce ==
  /\ [](/\ Called("graph_data_end") <= 1
        /\ (ParseFileReturned /\ pf.st = "eof") => Called("graph_data_end") = 1
        /\ Called("graph_data_end") > 0 => pf.st = "eof"
        /\ (Failed("fopen") \/ pf.st \in LoopFailures) => Called("graph_data_end") = 0)
  /\ [][Called("graph_data_end") > 0 =>
          pf'.objs = pf.objs /\ pf'.feeds = pf.feeds /\ pf'.reads = pf.reads]_vars

C4_Witness ==
  /\ Called("graph_data_end") = 1
  /\ ParseFileReturned
  /\ Len(pf.objs) = 2

\* C5: the exit status is 0 or 1, and 0 exactly when option parsing
\* succeeded, input and output were both given, and graph_data_init,
\* parse_context_init, parse_file and graph_data_to_svg all succeeded.
C5_ExitStatus ==
  pc = "exit" =>
    /\ status \in {0, 1}
    /\ status = 0 <=>
         /\ Succeeded("parse_opts")
         /\ cmd.input /\ cmd.output
         /\ Succeeded("graph_data_init")
         /\ Succeeded("parse_context_init")
         /\ Succeeded("parse_file")
         /\ Succeeded("graph_data_to_svg")

C5_Witness ==
  /\ pc = "exit"
  /\ status = 1
  /\ Failed("parse_file")
  /\ pf.st = "parse_failure"

\* C6: when main returns, the timeline model and the parse context have
\* been released if they were initialised, on the success path and on
\* every failure path.
C6_ModelAndContextReleased ==
  pc = "exit" =>
    /\ Succeeded("graph_data_init") => Called("graph_data_release") = 1
    /\ Succeeded("parse_context_init") => Called("parse_context_release") = 1

\* C7: once the tokener exists, every return of parse_file has released the
\* chunk buffer and freed the tokener, each exactly once, and the frame of
\* parse_file is not touched after the release.
C7_BufferAndTokenerReleased ==
  /\ [](/\ Called("bytebuf_release") <= 1
        /\ Called("json_tokener_free") <= 1
        /\ ParseFileReturned =>
             /\ pf.bb = bytebuf_init
             /\ Succeeded("json_tokener_new") =>
                  Called("bytebuf_release") = 1 /\ Called("json_tokener_free") = 1)
  /\ [][(Called("bytebuf_release") > 0 \/ Called("json_tokener_free") > 0) =>
          pf' = pf]_vars

C7_Witness ==
  /\ ParseFileReturned
  /\ pf.st = "interpretation_error"
  /\ Called("bytebuf_release") = 1
  /\ Called("json_tokener_free") = 1

\* The command line is one the usage rules reject.
UsageError == cmd.unknown \/ cmd.extra \/ ~cmd.input \/ ~cmd.output

\* C8: with an unknown flag, a trailing argument, no input file or no
\* output file on the command line, main returns 1 and nothing was
\* initialised, opened, read or rendered.
C8_UsageErrorBeforeIO ==
  (pc # "main" /\ UsageError) =>
    /\ pc \in {"check_args", "exit"}
    /\ pc = "exit" => status = 1
    /\ \A k \in 1..Len(log) : log[k].f = "parse_opts"
    /\ pf = parse_file_enter
    /\ file = <<>>
    /\ svg = <<>>

\* The input is given, the output is not, and main has returned.
C8_Witness ==
  /\ pc = "exit"
  /\ cmd.input /\ ~cmd.output /\ ~cmd.unknown /\ ~cmd.extra /\ ~cmd.help
  /\ status = 1

\* C9: once parse_context_process_object has returned an error the loop has
\* stopped: nothing more is fed, dispatched or read, and parse_file returns
\* an error.
C9_FailFastInterpretation ==
  /\ [](pf.r < 0 =>
          /\ pf.st = "interpretation_error"
          /\ pc # "loop"
          /\ Called("graph_data_end") = 0
          /\ ParseFileReturned => Failed("parse_file"))
  /\ [][pf.r < 0 =>
          /\ pf'.feeds = pf.feeds
          /\ pf'.objs = pf.objs
          /\ pf'.reads = pf.reads
          /\ pf'.fp = pf.fp]_vars

\* An object was rejected with bytes of the chunk and of the file behind it.
C9_Witness ==
  /\ pc = "fclose"
  /\ pf.r < 0
  /\ pf.bb.pos < pf.bb.len
  /\ pf.fp.pos < Len(file)

\* C10: when the tokener reports malformed input the loop aborts and
\* parse_file returns an error; what was dispatched before stays applied,
\* nothing is dispatched afterwards, and the bad bytes are neither skipped
\* nor fed again.
C10_MalformedInputAborts ==
  /\ [](pf.jtok.err = "parse_unexpected" =>
          /\ pf.st = "parse_failure"
          /\ pc # "loop"
          /\ Called("graph_data_end") = 0
          /\ ParseFileReturned => Failed("parse_file"))
  /\ [][pf.jtok.err = "parse_unexpected" =>
          /\ pf'.objs = pf.objs
          /\ pf'.ctx = pf.ctx
          /\ pf'.jtok = pf.jtok
          /\ pf'.feeds = pf.feeds
          /\ pf'.reads = pf.reads
          /\ pf'.fp = pf.fp
          /\ (pc' # "parse_file_returned" => pf'.bb = pf.bb)]_vars

\* An object was applied, then a bad byte met with more bytes behind it.
C10_Witness ==
  /\ pc = "fclose"
  /\ pf.st = "parse_failure"
  /\ pf.objs = <<<<"o">>>>
  /\ pf.ctx.open
  /\ pf.bb.len - (pf.bb.pos + pf.jtok.char_offset) > 1

\* C11: the bytes the tokener takes in are the bytes of the file, each once
\* and in file order; while the loop runs, what was taken in plus the
\* unconsumed rest of the chunk is exactly what was read; a chunk is read
\* only when the tokener wanted more after the whole rest of the chunk and
\* end-of-file was not reached; a loop ended at end-of-file took in the
\* whole file.
C11_EveryByteFedOnce ==
  /\ [](/\ pf.consumed = SubSeq(file, 1, Len(pf.consumed))
        /\ pc = "loop" =>
             /\ Len(pf.consumed) + (pf.bb.len - pf.bb.pos) = pf.fp.pos
             /\ Slice(pf.bb) = SubSeq(file, Len(pf.consumed) + 1, pf.fp.pos)
        /\ pf.st = "eof" => pf.consumed = file)
  /\ [][pf'.reads # pf.reads =>
          /\ pf'.reads = pf.reads + 1
          /\ pf'.jtok.err = "continue"
          /\ pf'.jtok.char_offset = pf.bb.len - pf.bb.pos
          /\ Len(pf'.consumed) = pf.fp.pos
          /\ ~pf.fp.eof]_vars

\* A chunk was read after an object and a partial value from the chunk
\* before it.
C11_Witness ==
  /\ pc = "loop"
  /\ pf.reads >= 2
  /\ Len(pf.objs) = 1
  /\ pf.jtok.state = "object"
  /\ pf.jtok.err = "continue"
  /\ pf.bb.pos = 0
  /\ pf.bb.len > 0

\* The complete objects of a well-formed byte sequence, in order: one per
\* closing brace, its payload the "o" bytes since the brace that opened it.
IsPayload(c) == c = "o"

RECURSIVE ObjectsIn(_)
ObjectsIn(bytes) ==
  IF \A k \in 1..Len(bytes) : bytes[k] # "}" THEN <<>>
  ELSE LET k == CHOOSE i \in 1..Len(bytes) :
                  bytes[i] = "}" /\ \A j \in 1..(i - 1) : bytes[j] # "}"
       IN <<SelectSeq(SubSeq(bytes, 1, k - 1), IsPayload)>>
            \o ObjectsIn(SubSeq(bytes, k + 1, Len(bytes)))

\* C12: the objects handed to parse_context_process_object are, at every
\* moment, exactly the complete objects among the bytes consumed so far, in
\* input order (each once, none pending while later bytes are consumed); a
\* dispatch advances the offset by the char_offset of that call, at least
\* one byte, within the same chunk, and every call of the tokener takes its
\* bytes from the front of the unconsumed rest of the chunk.
C12_ObjectsDispatchedOnceInOrder ==
  /\ [](pf.objs = ObjectsIn(pf.consumed))
  /\ [][Len(pf'.objs) # Len(pf.objs) =>
          /\ Len(pf'.objs) = Len(pf.objs) + 1
          /\ pf'.feeds = pf.feeds + 1
          /\ pf'.jtok.char_offset >= 1
          /\ pf'.bb.pos = pf.bb.pos + pf'.jtok.char_offset
          /\ pf'.bb.len = pf.bb.len
          /\ pf'.bb.data = pf.bb.data
          /\ pf'.reads = pf.reads]_vars
  /\ [][pf'.feeds # pf.feeds =>
          pf'.consumed = pf.consumed \o SubSeq(Slice(pf.bb), 1, pf'.jtok.char_offset)]_vars

\* The second object of a chunk was dispatched, from the rest of the chunk
\* behind the first.
C12_Witness ==
  /\ pc = "loop"
  /\ pf.objs = <<<<"o">>, <<>>>>
  /\ pf.reads = 1
  /\ pf.bb.pos > pf.jtok.char_offset

\* C13: a chunk read that succeeds sets len to the bytes read, which is the
\* requested size or, at end-of-file only, what was left (possibly nothing),
\* and pos to 0; it fails only on an allocation failure or a read fault, and
\* then the loop is left, graph_data_end is not called and parse_file fails.
C13_ChunkRead ==
  /\ [][pf'.reads # pf.reads =>
          IF pf'.st = "run"
          THEN /\ pf'.bb.len = Min(chunk, Len(file) - pf.fp.pos)
               /\ 0 <= pf'.bb.len /\ pf'.bb.len <= chunk
               /\ pf'.bb.len < chunk => (pf'.fp.eof /\ pf'.fp.pos = Len(file))
               /\ pf'.bb.pos = 0
               /\ Slice(pf'.bb) = SubSeq(file, pf.fp.pos + 1, pf.fp.pos + pf'.bb.len)
               /\ ~pf'.fp.err
          ELSE /\ pf'.st = "read_error"
               /\ pf'.fp.err \/ pf'.bb.alloc < chunk]_vars
  /\ [](pf.st = "read_error" =>
          /\ pc # "loop"
          /\ Called("graph_data_end") = 0
          /\ ParseFileReturned => Failed("parse_file"))

\* A read at the end of the file returned no byte and the loop goes on.
C13_Witness ==
  /\ pc = "loop"
  /\ pf.st = "run"
  /\ pf.reads >= 2
  /\ pf.bb.len = 0
  /\ pf.fp.eof
  /\ Len(file) > 0

\* The value of a decimal numeral, read from its last digit; IsNumeral: the
\* text is one or more digits.
IsNumeral(text) == Len(text) > 0 /\ \A k \in 1..Len(text) : IsDigit(text[k])

RECURSIVE DecimalValue(_)
DecimalValue(text) ==
  IF Len(text) = 0 THEN 0
  ELSE 10 * DecimalValue(SubSeq(text, 1, Len(text) - 1)) + DigitVal(text[Len(text)])

\* What the renderer is to receive for a bound given as `given` (<<>>: not
\* given; text that is no number counts as 0, as atoi has it).
RequestedBound(given) ==
  IF given = <<>> THEN -1
  ELSE IF IsNumeral(given[1]) THEN DecimalValue(given[1])
  ELSE 0

\* C14: graph_data_to_svg receives for from-ms and for to-ms the value given
\* on the command line (the last one, if given more than once) and -1 for a
\* bound that was not given; with neither given it is called with (-1, -1).
C14_WindowReachesRenderer ==
  svg # <<>> =>
    /\ svg[1].from_ms = RequestedBound(cmd.from)
    /\ svg[1].to_ms = RequestedBound(cmd.to)
    /\ svg[1].svgfile = OutName
    /\ (cmd.from = <<>> /\ cmd.to = <<>>) => (svg[1].from_ms = -1 /\ svg[1].to_ms = -1)

\* The renderer was called with from-ms given as 15 and to-ms not given.
C14_Witness ==
  /\ svg # <<>>
  /\ cmd.from = <<<<"1", "5">>>>
  /\ cmd.to = <<>>
  /\ svg[1].from_ms = 15
  /\ svg[1].to_ms = -1

\* C15: 0 <= pos <= len <= alloc always holds of the chunk buffer, the
\* allocation is alloc bytes long, and len never exceeds the size of a chunk
\* read: the slice handed to the tokener has a length >= 0 and lies within
\* the bytes of the last read.
C15_BufferBounds ==
  /\ 0 <= pf.bb.pos
  /\ pf.bb.pos <= pf.bb.len
  /\ pf.bb.len <= pf.bb.alloc
  /\ Len(pf.bb.data) = pf.bb.alloc
  /\ pf.bb.len <= chunk
  /\ Len(Slice(pf.bb)) = pf.bb.len - pf.bb.pos

\* The offset has reached the end of a chunk shorter than the allocation.
C15_Witness ==
  /\ pc = "loop"
  /\ pf.bb.pos = pf.bb.len
  /\ 0 < pf.bb.pos
  /\ pf.bb.len < pf.bb.alloc

\* C16: the decode loop terminates on every file: a loop that is running
\* is eventually left; every pass dispatches an object and moves the offset
\* on by at least one byte, or reads a chunk, or leaves the loop; and the
\* passes are bounded by the length of the file.
C16_LoopTerminates ==
  /\ (pc = "loop") ~> (pc = "fclose")
  /\ [][pf'.feeds # pf.feeds =>
          \/ /\ Len(pf'.objs) = Len(pf.objs) + 1
             /\ pf'.bb.pos >= pf.bb.pos + 1
          \/ pf'.reads = pf.reads + 1
          \/ pf'.st # "run"]_vars
  /\ [](/\ pf.feeds <= pf.reads + Len(pf.objs) + 1
        /\ pf.reads <= Len(file) + 1
        /\ 2 * Len(pf.objs) <= Len(file))

\* The loop was left at end-of-file after one-byte chunks and two objects.
C16_Witness ==
  /\ pc = "fclose"
  /\ chunk = 1
  /\ pf.st = "eof"
  /\ Len(pf.objs) = 2
  /\ pf.reads = Len(file) + 1
  /\ pf.feeds = pf.reads + 3

\* C17: on an empty input file that is read without a fault, parse_file
\* dispatches no object, reads exactly one chunk (of zero bytes), leaves
\* the loop at end-of-file on its second pass, calls graph_data_end once and
\* returns what graph_data_end returned.
C17_EmptyFile ==
  (Succeeded("fopen") /\ file = <<>>) =>
    /\ pf.objs = <<>>
    /\ pf.reads <= 1
    /\ pf.st \in {"run", "eof", "read_error"}
    /\ (pc = "loop" /\ pf.reads = 1) => (pf.bb.len = 0 /\ pf.fp.eof)
    /\ pf.st = "eof" => (pf.reads = 1 /\ pf.feeds = 2)
    /\ (pf.st = "eof" /\ pc \in {"fclose", "finalize"}) => pf.ret = 0
    /\ (ParseFileReturned /\ pf.st # "read_error") =>
         /\ pf.st = "eof"
         /\ Called("graph_data_end") = 1
         /\ \A k \in Calls("parse_file"), j \in Calls("graph_data_end") :
              log[k].r = log[j].r

\* parse_file has returned graph_data_end's failure on an empty file.
C17_Witness ==
  /\ pc = "parse_file_returned"
  /\ Succeeded("fopen")
  /\ file = <<>>
  /\ pf.st = "eof"
  /\ pf.reads = 1
  /\ Failed("graph_data_end")
  /\ Failed("parse_file")

\* C18: a file that was opened is closed exactly once however the loop was
\* left, and before graph_data_end is called; when fopen fails, fclose is
\* not called and the loop body never runs.
C18_FileClosedOnce ==
  /\ Called("fclose") <= 1
  /\ Called("fclose") = 1 => Succeeded("fopen")
  /\ (Succeeded("fopen") /\ pc \notin {"loop", "fclose"}) =>
       (Called("fclose") = 1 /\ pf.st \in {"eof"} \cup LoopFailures)
  /\ pc = "fclose" => (Called("fclose") = 0 /\ Succeeded("fopen"))
  /\ \A j \in Calls("graph_data_end") : \E k \in Calls("fclose") : k < j
  /\ Failed("fopen") =>
       /\ Called("fclose") = 0
       /\ Called("graph_data_end") = 0
       /\ pf.feeds = 0 /\ pf.reads = 0 /\ pf.st = "run"

\* parse_file has returned after an interpretation error, the file closed.
C18_Witness ==
  /\ ParseFileReturned
  /\ pf.st = "interpretation_error"
  /\ Called("fclose") = 1
  /\ Called("graph_data_end") = 0

\* C19: bytebuf_ensure never shrinks the buffer: when it succeeds, alloc is
\* at least the size asked for and at least what it was, and the bytes held,
\* len and pos are kept; when realloc fails, data, alloc, len and pos are
\* what they were.
C19_EnsureNeverShrinks ==
  [][pc' = "bytebuf_ensure" =>
       /\ pf'.r \in {0, ERROR}
       /\ pf'.r = 0 =>
            /\ pf'.bb.alloc >= chunk'
            /\ pf'.bb.alloc >= pf.bb.alloc
            /\ Len(pf'.bb.data) = pf'.bb.alloc
            /\ SubSeq(pf'.bb.data, 1, pf.bb.alloc) = pf.bb.data
            /\ pf'.bb.len = pf.bb.len
            /\ pf'.bb.pos = pf.bb.pos
       /\ pf'.r < 0 => (pf'.bb = pf.bb /\ pf.bb.alloc < chunk')]_vars

\* bytebuf_ensure has returned 0 for a size below that of a buffer in use.
C19_Witness ==
  /\ pc = "bytebuf_ensure"
  /\ pf.r = 0
  /\ 0 < chunk
  /\ chunk < pf.bb.len
  /\ pf.bb.len < pf.bb.alloc
====
